---- MODULE Spec2Model ----
(***************************************************************************)
(* react-native-email-link, src/index.ios.js.                              *)
(*                                                                         *)
(* The module's registry tables, the URL builder getUrlParams, and the     *)
(* asynchronous operations isAppInstalled, askAppChoice, getApp, openInbox *)
(* and openComposer, as a state machine whose steps are the stretches of   *)
(* code between two answers of an external collaborator                    *)
(* (Linking.canOpenURL, ActionSheetIOS.showActionSheetWithOptions,         *)
(* Linking.openURL).                                                       *)
(***************************************************************************)
EXTENDS Naturals, Integers, Sequences, FiniteSets, TLC

VARIABLES inv          \* inv[i]: the state of invocation i of a public operation

vars == <<inv>>

(***************************************************************************)
(* JavaScript values.  A primitive is [t |-> type tag, v |-> payload]; an  *)
(* object adds f, the function from its own keys to their values.          *)
(***************************************************************************)
Undefined == [t |-> "undefined", v |-> ""]
Null == [t |-> "null", v |-> ""]
Str(s) == [t |-> "string", v |-> s]
Bool(b) == [t |-> "boolean", v |-> IF b THEN "true" ELSE "false"]
Num(n) == [t |-> "number", v |-> n]
NoKeys == [k \in {} |-> Undefined]
Prim(x) == [t |-> x.t, v |-> x.v, f |-> NoKeys]
Absent == [t |-> "absent", v |-> ""]
\* the object literal whose keys are those c gives a value
Obj(c) == [t |-> "object", v |-> "",
           f |-> [k \in {k \in DOMAIN c : c[k] # Absent} |-> c[k]]]

\* ToBoolean
Truthy(x) ==
  CASE x.t = "undefined" -> FALSE
    [] x.t = "null" -> FALSE
    [] x.t = "string" -> x.v # ""
    [] x.t = "boolean" -> x.v = "true"
    [] x.t = "number" -> x.v \notin {"0", "NaN"}
    [] OTHER -> TRUE

\* typeof
TypeOf(x) == IF x.t = "null" THEN "object" ELSE x.t

\* names every object inherits from Object.prototype (a sample of them)
ObjectPrototypeKeys == {"toString", "constructor"}

\* o[k] on an object of the options kind
Get(o, k) == IF k \in DOMAIN o.f THEN o.f[k] ELSE Undefined

\* x || d
OrElse(x, d) == IF Truthy(x) THEN x ELSE d

\* a parameter or destructuring default: it applies to undefined alone
Default(x, d) == IF x = Undefined THEN d ELSE x

RECURSIVE Join(_, _)
\* Array.prototype.join
Join(parts, sep) ==
  IF Len(parts) = 0 THEN ""
  ELSE IF Len(parts) = 1 THEN parts[1]
  ELSE parts[1] \o sep \o Join(Tail(parts), sep)

\* Array.prototype.indexOf of a JavaScript value in an array of strings (0-based)
IndexOf(keys, x) ==
  IF x.t = "string" /\ \E n \in 1..Len(keys) : keys[n] = x.v
  THEN (CHOOSE n \in 1..Len(keys) :
          keys[n] = x.v /\ \A m \in 1..(n - 1) : keys[m] # x.v) - 1
  ELSE -1

(***************************************************************************)
(* The registry.                                                           *)
(***************************************************************************)
\* Object.keys(prefixes), which is also the order of for (let app in prefixes)
PrefixKeys == <<"apple-mail", "gmail", "inbox", "spark", "airmail", "outlook">>

AppIds == {PrefixKeys[n] : n \in 1..Len(PrefixKeys)}

prefixes ==
  ("apple-mail" :> "message://") @@ ("gmail" :> "googlegmail://") @@
  ("inbox" :> "inbox-gmail://") @@ ("spark" :> "readdle-spark://") @@
  ("airmail" :> "airmail://") @@ ("outlook" :> "ms-outlook://")

titles ==
  ("apple-mail" :> "Mail") @@ ("gmail" :> "Gmail") @@ ("inbox" :> "Inbox") @@
  ("spark" :> "Spark") @@ ("airmail" :> "Airmail") @@ ("outlook" :> "Outlook")

\* each dialect as its entries <<field, key>> in declaration order
uriParams ==
  ("apple-mail" :> << <<"cc", "cc">>, <<"bcc", "bcc">>,
                      <<"subject", "subject">>, <<"body", "body">> >>) @@
  ("gmail" :> << <<"path", "co">>, <<"to", "to">>, <<"cc", "cc">>,
                 <<"bcc", "bcc">>, <<"subject", "subject">>, <<"body", "body">> >>) @@
  ("inbox" :> << <<"path", "co">>, <<"to", "to">>, <<"cc", "cc">>,
                 <<"bcc", "bcc">>, <<"subject", "subject">>, <<"body", "body">> >>) @@
  ("spark" :> << <<"path", "compose">>, <<"to", "recipient">>, <<"cc", "cc">>,
                 <<"bcc", "bcc">>, <<"subject", "subject">>, <<"body", "body">> >>) @@
  ("airmail" :> << <<"path", "compose">>, <<"to", "to">>, <<"cc", "cc">>,
                   <<"bcc", "bcc">>, <<"subject", "subject">>, <<"body", "htmlBody">> >>) @@
  ("outlook" :> << <<"path", "compose">>, <<"to", "to">>, <<"cc", "cc">>,
                   <<"bcc", "bcc">>, <<"subject", "subject">>, <<"body", "body">> >>)

\* appParms[field], "" standing for a field the dialect does not define
ParamOf(appParms, field) ==
  IF \E n \in 1..Len(appParms) : appParms[n][1] = field
  THEN (CHOOSE e \in {appParms[n] : n \in 1..Len(appParms)} : e[1] = field)[2]
  ELSE ""

RECURSIVE ReduceParamsPresent(_, _)
\* ReduceParams testing the presence of the option's key instead of its truth
ReduceParamsPresent(appParms, options) ==
  IF Len(appParms) = 0 THEN <<>>
  ELSE LET currentParam == appParms[1][1]
           rest == ReduceParamsPresent(Tail(appParms), options)
       IN IF currentParam \in DOMAIN options.f
          THEN <<appParms[1][2] \o "=" \o Get(options, currentParam).v>> \o rest
          ELSE rest

RECURSIVE ReduceParams(_, _)
\* Object.keys(appParms).reduce(...): one "key=value" per entry whose option is truthy
ReduceParams(appParms, options) ==
  IF Len(appParms) = 0 THEN <<>>
  ELSE LET currentParam == appParms[1][1]
           rest == ReduceParams(Tail(appParms), options)
       IN IF Truthy(Get(options, currentParam))
          THEN <<appParms[1][2] \o "=" \o Get(options, currentParam).v>> \o rest
          ELSE rest

\* the path segment of the compose URL
UrlPath(app, options) ==
  IF app = "apple-mail"
  THEN OrElse(Get(options, "to"), Str("")).v
  ELSE ParamOf(uriParams[app], "path")

getUrlParams(app, options) ==
  IF app \notin DOMAIN uriParams THEN ""
  ELSE UrlPath(app, options) \o "?" \o Join(ReduceParams(uriParams[app], options), "&")

(***************************************************************************)
(* Errors.                                                                 *)
(***************************************************************************)
NoError == [name |-> "", message |-> ""]

\* new EmailException(message)
EmailException(message) == [name |-> "EmailException", message |-> message]

NotAnObjectMessage == "First parameter must be an object of options."

\* (the source sets the word app in backquotes, which a string here cannot hold)
BadAppMessage ==
  "Option app should be undefined, null, or one of the following: \"" \o
  Join(PrefixKeys, "\", \"") \o "\"."

NoAppMessage == "No email app found"

\* what the engine throws for  "app" in options  when options is no object
InOperatorTypeError ==
  [name |-> "TypeError", message |-> "Cannot use in operator to search for app"]

\* the failure Linking.openURL hands back
OpenUrlError == [name |-> "Error", message |-> "Unable to open URL"]

\* key in obj, for an object: own keys and inherited ones
In(key, keys) == key \in keys \/ key \in ObjectPrototypeKeys

\* prefixes[app] as handed to Linking.canOpenURL
PrefixOf(app) ==
  IF app \in DOMAIN prefixes THEN prefixes[app]
  ELSE IF app \in ObjectPrototypeKeys THEN "[Object.prototype." \o app \o "]"
  ELSE "undefined"

(***************************************************************************)
(* One invocation of a public operation.                                   *)
(*   op            the operation called                                    *)
(*   arg           its argument: options, or the app of isAppInstalled     *)
(*   ui            askAppChoice's title, message, cancelLabel, removeText  *)
(*   pc            where the invocation stands                             *)
(*   availableApps askAppChoice's local list                               *)
(*   next          index in PrefixKeys of the next app the loop visits     *)
(*   outstanding   the apps whose canOpenURL promise is still pending      *)
(*   probes        the arguments of the calls of Linking.canOpenURL made   *)
(*   answers       history: what canOpenURL answered, per app it answered  *)
(*   picked        history: the button index the sheet answered, else -1   *)
(*   sheets        the requests handed to showActionSheetWithOptions       *)
(*   urls          the arguments of the calls of Linking.openURL made      *)
(*   launchAnswer  history: "ok" or "fail" once openURL has answered       *)
(*   app           getApp's result                                         *)
(*   settled       "pending", "fulfilled" or "rejected"                    *)
(*   value         the value a fulfilled promise carries                   *)
(*   error         the error a rejected promise carries                    *)
(***************************************************************************)
NoUi == [title |-> Undefined, message |-> Undefined,
         cancelLabel |-> Undefined, removeText |-> Undefined]

NoAnswers == [a \in {} |-> ""]

Fresh(op, arg, ui) ==
  [op |-> op, arg |-> arg, ui |-> ui, pc |-> "start",
   availableApps |-> <<>>, next |-> 1, outstanding |-> {},
   probes |-> <<>>, answers |-> NoAnswers, picked |-> -1, sheets |-> <<>>, urls |-> <<>>,
   launchAnswer |-> "",
   app |-> Null, settled |-> "pending", value |-> Undefined, error |-> NoError]

Idle == [Fresh("none", Prim(Undefined), NoUi) EXCEPT !.pc = "idle"]

\* the promise of the operation is fulfilled with value
Fulfil(r, value) == [r EXCEPT !.pc = "done", !.settled = "fulfilled", !.value = value]

\* the promise of the operation is rejected with error
Reject(r, error) == [r EXCEPT !.pc = "done", !.settled = "rejected", !.error = error]

(***************************************************************************)
(* isAppInstalled                                                          *)
(***************************************************************************)
\* Linking.canOpenURL(prefixes[app]) is called and its promise is pending
IssueProbe(r, app) ==
  [r EXCEPT !.probes = Append(@, PrefixOf(app)), !.outstanding = @ \cup {app}]

\* if (!(app in prefixes)) return resolve(false)
IsKnownToProbe(app) == In(app, DOMAIN prefixes)

\* ProbeResult without the .catch: only an answer of false counts as not installed
ProbeResultNoCatch(answer) == answer # "false"

\* what isAppInstalled resolves to when canOpenURL answers: .then passes the
\* answer on, .catch turns a rejection into false
ProbeResult(answer) == IF answer = "reject" THEN FALSE ELSE answer = "true"

ProbeAnswers == {"true", "false", "reject"}

(***************************************************************************)
(* askAppChoice and getApp                                                 *)
(***************************************************************************)
\* CheckOptions testing  options.app in prefixes  instead of indexOf
CheckOptionsInherited(options) ==
  IF Truthy(options) /\ TypeOf(options) # "object"
  THEN EmailException(NotAnObjectMessage)
  ELSE IF options.t # "object" THEN InOperatorTypeError
  ELSE IF /\ In("app", DOMAIN options.f)
          /\ Truthy(Get(options, "app"))
          /\ ~In(Get(options, "app").v, DOMAIN prefixes)
       THEN EmailException(BadAppMessage)
  ELSE NoError

\* getApp's two checks of options: the error thrown, or NoError
CheckOptions(options) ==
  IF Truthy(options) /\ TypeOf(options) # "object"
  THEN EmailException(NotAnObjectMessage)
  ELSE IF options.t # "object" THEN InOperatorTypeError
  ELSE IF /\ In("app", DOMAIN options.f)
          /\ Truthy(Get(options, "app"))
          /\ IndexOf(PrefixKeys, Get(options, "app")) < 0
       THEN EmailException(BadAppMessage)
  ELSE NoError

\* ExplicitApp reading a key the options never carry
ExplicitAppWrongKey(options) == Default(Get(options, "App"), Null)

\* let { app = null } = options
ExplicitApp(options) == Default(Get(options, "app"), Null)

\* const { title, message, cancelLabel, removeText } = options
UiOf(options) ==
  [title |-> Get(options, "title"), message |-> Get(options, "message"),
   cancelLabel |-> Get(options, "cancelLabel"), removeText |-> Get(options, "removeText")]

\* Chosen without getApp's  if (!app) throw
ChosenUnchecked(r, app) ==
  IF r.op = "askAppChoice" THEN Fulfil(r, app)
  ELSE [r EXCEPT !.pc = "resolved", !.app = app]

\* askAppChoice has resolved to app: askAppChoice's own caller gets it, getApp
\* goes on with  if (!app) throw ...; return app
Chosen(r, app) ==
  IF r.op = "askAppChoice" THEN Fulfil(r, app)
  ELSE IF ~Truthy(app) THEN Reject(r, EmailException(NoAppMessage))
  ELSE [r EXCEPT !.pc = "resolved", !.app = app]

\* SheetOptions with the cancel label put first (unshift for push)
SheetOptionsCancelFirst(availableApps, cancelLabel) ==
  <<cancelLabel>> \o [n \in 1..Len(availableApps) |-> Str(titles[availableApps[n]])]

\* let options = availableApps.map(app => titles[app]); options.push(cancelLabel)
SheetOptions(availableApps, cancelLabel) ==
  Append([n \in 1..Len(availableApps) |-> Str(titles[availableApps[n]])], cancelLabel)

\* SheetRequest passing title and message whatever removeText says
SheetRequestTextAlways(r) ==
  LET options == SheetOptions(r.availableApps, Default(r.ui.cancelLabel, Str("Cancel")))
  IN [options |-> options,
      cancelButtonIndex |-> Len(options) - 1,
      title |-> Default(r.ui.title, Str("Open mail app")),
      message |-> Default(r.ui.message, Str("Which app would you like to open?"))]

\* the request handed to ActionSheetIOS.showActionSheetWithOptions
SheetRequest(r) ==
  LET options == SheetOptions(r.availableApps, Default(r.ui.cancelLabel, Str("Cancel")))
      text == ~Truthy(Default(r.ui.removeText, Bool(FALSE)))
  IN [options |-> options,
      cancelButtonIndex |-> Len(options) - 1,
      title |-> IF text THEN Default(r.ui.title, Str("Open mail app")) ELSE Absent,
      message |-> IF text THEN Default(r.ui.message, Str("Which app would you like to open?"))
                  ELSE Absent]

\* AfterLoop without the return in front of resolve: the sheet is shown as well
AfterLoopNoReturn(r) ==
  IF Len(r.availableApps) < 2
  THEN [Chosen(r, IF Len(r.availableApps) = 0 THEN Null
                  ELSE OrElse(Str(r.availableApps[1]), Null))
          EXCEPT !.sheets = Append(@, SheetRequest(r))]
  ELSE [r EXCEPT !.pc = "picking", !.sheets = Append(@, SheetRequest(r))]

\* AfterLoop with the threshold one too high
AfterLoopThreshold(r) ==
  IF Len(r.availableApps) < 3
  THEN Chosen(r, IF Len(r.availableApps) = 0 THEN Null
                 ELSE OrElse(Str(r.availableApps[1]), Null))
  ELSE [r EXCEPT !.pc = "picking", !.sheets = Append(@, SheetRequest(r))]

\* the loop is over: fewer than two apps resolve at once, else the sheet is shown
AfterLoop(r) ==
  IF Len(r.availableApps) < 2
  THEN Chosen(r, IF Len(r.availableApps) = 0 THEN Null
                 ELSE OrElse(Str(r.availableApps[1]), Null))
  ELSE [r EXCEPT !.pc = "picking", !.sheets = Append(@, SheetRequest(r))]

RECURSIVE IssueAll(_, _)
\* every app from the n-th on is probed without awaiting the one before
IssueAll(r, n) ==
  IF n > Len(PrefixKeys) THEN r ELSE IssueAll(IssueProbe(r, PrefixKeys[n]), n + 1)

\* LoopStep probing all the apps at once (Promise.all for the awaited loop)
LoopStepAllAtOnce(r) ==
  IF r.next <= Len(PrefixKeys)
  THEN [IssueAll(r, r.next) EXCEPT !.pc = "probing", !.next = Len(PrefixKeys) + 1]
  ELSE IF r.outstanding # {} THEN r
  ELSE AfterLoop(r)

\* the loop reaches its next iteration: the next app is probed, or the loop ends
LoopStep(r) ==
  IF r.next <= Len(PrefixKeys)
  THEN [IssueProbe(r, PrefixKeys[r.next]) EXCEPT !.pc = "probing", !.next = r.next + 1]
  ELSE AfterLoop(r)

\* if (avail) availableApps.push(app)
Collect(r, app, avail) ==
  IF avail THEN [r EXCEPT !.availableApps = Append(@, app)] ELSE r

\* the sheet's callback
SheetCallback(r, buttonIndex) ==
  IF buttonIndex = Len(r.sheets[Len(r.sheets)].options) - 1
  THEN Chosen(r, Null)
  ELSE Chosen(r, Str(r.availableApps[buttonIndex + 1]))

(***************************************************************************)
(* openInbox and openComposer                                              *)
(***************************************************************************)
\* ComposePrefix without the mailto: override
ComposePrefixRegistry(app) == PrefixOf(app)

\* the prefix openComposer launches with
ComposePrefix(app) == IF app = "apple-mail" THEN "mailto:" ELSE PrefixOf(app)

\* LaunchUrl handing openInbox the compose URL too
LaunchUrlAlwaysCompose(op, app, options) ==
  ComposePrefix(app) \o getUrlParams(app, options)

\* the argument of Linking.openURL
LaunchUrl(op, app, options) ==
  IF op = "openInbox" THEN PrefixOf(app)
  ELSE ComposePrefix(app) \o getUrlParams(app, options)

\* LaunchSettled calling openURL once more after a failure
LaunchSettledRetry(r, ok) ==
  IF ok THEN Fulfil(r, Undefined) ELSE [r EXCEPT !.pc = "resolved"]

\* return Linking.openURL(...): the operation settles as the openURL promise does
LaunchSettled(r, ok) ==
  IF ok THEN Fulfil(r, Undefined) ELSE Reject(r, OpenUrlError)

\* GetApp asking for a choice only when app is null (app === null for !app)
GetAppNullOnly(r) ==
  LET e == CheckOptions(r.arg)
      app == ExplicitApp(r.arg)
  IN IF e # NoError THEN Reject(r, e)
     ELSE IF app = Null THEN LoopStep([r EXCEPT !.ui = UiOf(r.arg)])
     ELSE [r EXCEPT !.pc = "resolved", !.app = app]

\* getApp up to its first suspension, or to its end
GetApp(r) ==
  LET e == CheckOptions(r.arg)
      app == ExplicitApp(r.arg)
  IN IF e # NoError THEN Reject(r, e)
     ELSE IF ~Truthy(app) THEN LoopStep([r EXCEPT !.ui = UiOf(r.arg)])
     ELSE [r EXCEPT !.pc = "resolved", !.app = app]

(***************************************************************************)
(* The inputs.                                                             *)
(***************************************************************************)
Invocations == {1, 2}

OpenOps == {"openInbox", "openComposer"}

AppStrings == AppIds \cup {"yahoo", "", "toString", "constructor"}

\* options.app: absent, falsy, a known AppId or another value
AppChoices ==
  {Absent, Null, Str(""), Num("0"), Str("yahoo"), Str("toString"), Num("5")}
    \cup {Str(a) : a \in AppIds}

ExplicitChoices == {a \in AppChoices : a # Absent /\ Truthy(a)}

NoAppChoices == AppChoices \ ExplicitChoices

NoFields == [k \in {"app", "to", "cc", "bcc", "subject", "body", "path",
                     "title", "message", "cancelLabel", "removeText"} |-> Absent]

\* options that name an app, with compose fields
ExplicitOptions ==
  {Obj([NoFields EXCEPT !.app = a, !.to = t, !.subject = s, !.cc = c, !.path = p]) :
     a \in ExplicitChoices, t \in {Absent, Str(""), Str("a@b.com")},
     s \in {Absent, Str("Hi")}, c \in {Absent, Str("c@d.com")},
     p \in {Absent, Str("x")}}

\* options that name no app
NoAppOptions ==
  {Obj([NoFields EXCEPT !.app = a, !.to = f[1], !.subject = f[2]]) :
     a \in NoAppChoices, f \in {<<Absent, Absent>>, <<Str("a@b.com"), Str("Hi")>>}}

\* the prompt's customisations
UiChoices ==
  {[title |-> t[1], message |-> t[2], cancelLabel |-> c, removeText |-> x] :
     t \in {<<Absent, Absent>>, <<Str("Pick"), Str("Which one?")>>, <<Str("Pick"), Absent>>},
     c \in {Absent, Str("Nope")},
     x \in {Absent, Bool(TRUE), Bool(FALSE)}}

UiOptions ==
  {Obj([NoFields EXCEPT !.title = u.title, !.message = u.message,
                        !.cancelLabel = u.cancelLabel, !.removeText = u.removeText]) :
     u \in UiChoices}

\* what is no object of options
NonObjects ==
  {Prim(Undefined), Prim(Null), Prim(Num("0")), Prim(Num("5")), Prim(Str("")),
   Prim(Str("gmail")), Prim(Bool(TRUE)), Prim(Bool(FALSE))}

\* askAppChoice's arguments, undefined for one left out
AskArgs ==
  {[k \in DOMAIN u |-> IF u[k] = Absent THEN Undefined ELSE u[k]] :
     u \in {v \in UiChoices : v.message = Absent \/ v.title # Absent}}

Starts ==
  {Fresh(op, o, NoUi) : op \in OpenOps, o \in ExplicitOptions \cup NoAppOptions \cup NonObjects}
    \cup {Fresh("openInbox", o, NoUi) : o \in UiOptions}
    \cup {Fresh("isAppInstalled", Prim(Str(a)), NoUi) : a \in AppStrings}
    \cup {Fresh("askAppChoice", Prim(Undefined), u) : u \in AskArgs}

(***************************************************************************)
(* The steps of an invocation.                                             *)
(***************************************************************************)
\* Store with availableApps declared at module level, one list for every call
StoreSharedList(i, r) ==
  [j \in Invocations |->
     IF j = i THEN r ELSE [inv[j] EXCEPT !.availableApps = r.availableApps]]

\* an invocation's state is its own: options, and the availableApps declared
\* inside askAppChoice's executor; a step of invocation i comes to r
Store(i, r) == [inv EXCEPT ![i] = r]

\* isAppInstalled(app) runs up to its canOpenURL call
IsAppInstalledCalled(r) ==
  IF ~IsKnownToProbe(r.arg.v) THEN Fulfil(r, Bool(FALSE))
  ELSE [IssueProbe(r, r.arg.v) EXCEPT !.pc = "probing"]

\* ProbeAnswered without the .catch: after a rejection resolve is never called
ProbeAnsweredNoCatch(r0, app, answer) ==
  LET r == [r0 EXCEPT !.outstanding = @ \ {app}, !.answers = (app :> answer) @@ @]
  IN IF answer = "reject" THEN r
     ELSE IF r.op = "isAppInstalled" THEN Fulfil(r, Bool(ProbeResult(answer)))
     ELSE LoopStep(Collect(r, app, ProbeResult(answer)))

\* the canOpenURL promise for app settles with answer
ProbeAnswered(r0, app, answer) ==
  LET r == [r0 EXCEPT !.outstanding = @ \ {app}, !.answers = (app :> answer) @@ @]
  IN IF r.op = "isAppInstalled" THEN Fulfil(r, Bool(ProbeResult(answer)))
     ELSE LoopStep(Collect(r, app, ProbeResult(answer)))

\* the sheet calls back with buttonIndex
PickerAnswered(r, buttonIndex) ==
  SheetCallback([r EXCEPT !.picked = buttonIndex], buttonIndex)

\* await getApp(options) is over: Linking.openURL is called
Launched(r) ==
  [r EXCEPT !.pc = "launching", !.urls = Append(@, LaunchUrl(r.op, r.app.v, r.arg))]

\* the openURL promise settles
LaunchAnswered(r, ok) ==
  LaunchSettled([r EXCEPT !.launchAnswer = IF ok THEN "ok" ELSE "fail"], ok)

\* isAppInstalled(app) is called
CallIsAppInstalled(i) ==
  /\ inv[i].pc = "start" /\ inv[i].op = "isAppInstalled"
  /\ inv' = Store(i, IsAppInstalledCalled(inv[i]))

\* askAppChoice(title, message, cancelLabel, removeText) is called
CallAskAppChoice(i) ==
  /\ inv[i].pc = "start" /\ inv[i].op = "askAppChoice"
  /\ inv' = Store(i, LoopStep(inv[i]))

\* openInbox(options) or openComposer(options) is called
CallOpen(i) ==
  /\ inv[i].pc = "start" /\ inv[i].op \in OpenOps
  /\ inv' = Store(i, GetApp(inv[i]))

\* a pending canOpenURL promise settles
ProbeReturn(i) ==
  /\ inv[i].pc = "probing"
  /\ \E app \in inv[i].outstanding, answer \in ProbeAnswers :
       inv' = Store(i, ProbeAnswered(inv[i], app, answer))

\* the user taps a button of the sheet
PickerAnswer(i) ==
  /\ inv[i].pc = "picking"
  /\ \E buttonIndex \in 0..inv[i].sheets[Len(inv[i].sheets)].cancelButtonIndex :
       inv' = Store(i, PickerAnswered(inv[i], buttonIndex))

\* getApp has returned: Linking.openURL is called
Launch(i) ==
  /\ inv[i].pc = "resolved"
  /\ inv' = Store(i, Launched(inv[i]))

\* the openURL promise settles, and with it the operation's
LaunchReturn(i) ==
  /\ inv[i].pc = "launching"
  /\ \E ok \in BOOLEAN : inv' = Store(i, LaunchAnswered(inv[i], ok))

Init == \E s \in Starts : inv = [i \in Invocations |-> IF i = 1 THEN s ELSE Idle]

Next ==
  \E i \in {1} :
    \/ CallIsAppInstalled(i)
    \/ CallAskAppChoice(i)
    \/ CallOpen(i)
    \/ ProbeReturn(i)
    \/ PickerAnswer(i)
    \/ Launch(i)
    \/ LaunchReturn(i)

Spec == Init /\ [][Next]_vars

(***************************************************************************)
(* getUrlParams alone, on every bundle of compose fields.                  *)
(***************************************************************************)
FieldChoices == {Absent, Str(""), Str("a@b.com")}

ComposeOptions ==
  {Obj([NoFields EXCEPT !.to = t, !.cc = c, !.bcc = b, !.subject = s, !.body = y,
                        !.path = p[1], !.title = p[2], !.message = p[2]]) :
     t \in FieldChoices, c \in {Absent, Str(""), Str("c@d.com")},
     b \in {Absent, Str(""), Str("e@f.com")}, s \in {Absent, Str(""), Str("Hi")},
     y \in {Absent, Str(""), Str("Yo")},
     p \in {<<Absent, Absent>>, <<Str("x"), Absent>>, <<Absent, Str("Pick")>>}}

UrlStarts ==
  {[Fresh("getUrlParams", o, NoUi) EXCEPT !.app = Str(a)] :
     a \in AppIds \cup {"yahoo"}, o \in ComposeOptions}

\* getUrlParams(app, options) is called and returns
BuildUrl(i) ==
  /\ inv[i].pc = "start" /\ inv[i].op = "getUrlParams"
  /\ inv' = [inv EXCEPT ![i] = Fulfil(@, Str(getUrlParams(@.app.v, @.arg)))]

InitUrl == \E s \in UrlStarts : inv = [i \in Invocations |-> IF i = 1 THEN s ELSE Idle]

NextUrl == \E i \in {1} : BuildUrl(i)

SpecUrl == InitUrl /\ [][NextUrl]_vars

\* every collaborator answers in the end, and the event loop runs every
\* continuation that is ready
Fairness ==
  \A i \in {1} :
    /\ WF_vars(CallIsAppInstalled(i)) /\ WF_vars(CallAskAppChoice(i)) /\ WF_vars(CallOpen(i))
    /\ WF_vars(ProbeReturn(i)) /\ WF_vars(PickerAnswer(i))
    /\ WF_vars(Launch(i)) /\ WF_vars(LaunchReturn(i))

SpecLive == Init /\ [][Next]_vars /\ Fairness

(***************************************************************************)
(* The same call made twice, once with app: "" and once with app absent or *)
(* null, the collaborators giving both the same answers.                   *)
(***************************************************************************)
PairStarts ==
  {<<Fresh(op, Obj([c EXCEPT !.app = Str("")]), NoUi), Fresh(op, Obj([c EXCEPT !.app = a]), NoUi)>> :
     op \in OpenOps, a \in {Absent, Null},
     c \in {[NoFields EXCEPT !.to = f[1], !.subject = f[2], !.cancelLabel = f[3],
                             !.removeText = f[4]] :
              f \in {<<Absent, Absent, Absent, Absent>>,
                     <<Str("a@b.com"), Str("Hi"), Str("Nope"), Bool(TRUE)>>}}}

InitPair == \E p \in PairStarts : inv = [i \in Invocations |-> p[i]]

CallOpenBoth ==
  /\ \A i \in Invocations : inv[i].pc = "start" /\ inv[i].op \in OpenOps
  /\ inv' = [i \in Invocations |-> GetApp(inv[i])]

ProbeReturnBoth ==
  /\ \A i \in Invocations : inv[i].pc = "probing"
  /\ \E app \in inv[1].outstanding \cap inv[2].outstanding, answer \in ProbeAnswers :
       inv' = [i \in Invocations |-> ProbeAnswered(inv[i], app, answer)]

PickerAnswerBoth ==
  /\ \A i \in Invocations : inv[i].pc = "picking"
  /\ \E buttonIndex \in 0..inv[1].sheets[Len(inv[1].sheets)].cancelButtonIndex :
       /\ buttonIndex <= inv[2].sheets[Len(inv[2].sheets)].cancelButtonIndex
       /\ inv' = [i \in Invocations |-> PickerAnswered(inv[i], buttonIndex)]

LaunchBoth ==
  /\ \A i \in Invocations : inv[i].pc = "resolved"
  /\ inv' = [i \in Invocations |-> Launched(inv[i])]

LaunchReturnBoth ==
  /\ \A i \in Invocations : inv[i].pc = "launching"
  /\ \E ok \in BOOLEAN : inv' = [i \in Invocations |-> LaunchAnswered(inv[i], ok)]

NextPair ==
  \/ CallOpenBoth
  \/ ProbeReturnBoth
  \/ PickerAnswerBoth
  \/ LaunchBoth
  \/ LaunchReturnBoth

SpecPair == InitPair /\ [][NextPair]_vars

(***************************************************************************)
(* Two calls whose steps interleave, on a device where gmail, spark and    *)
(* outlook may be installed and the other three apps are not.              *)
(***************************************************************************)
MaybeInstalled == {"gmail", "spark", "outlook"}

\* what canOpenURL may answer for app on that device
DeviceAnswers(app) == IF app \in MaybeInstalled THEN ProbeAnswers ELSE {"false"}

TwoStarts ==
  {<<Fresh(op1, Obj([NoFields EXCEPT !.to = Str("a@b.com"), !.subject = Str("Hi")]), NoUi),
     Fresh(op2, Obj([NoFields EXCEPT !.app = a]), NoUi)>> :
     op1 \in OpenOps, op2 \in OpenOps, a \in {Absent, Str("spark")}}

InitTwo == \E p \in TwoStarts : inv = [i \in Invocations |-> p[i]]

\* a pending canOpenURL promise settles, on that device
ProbeReturnOnDevice(i) ==
  /\ inv[i].pc = "probing"
  /\ \E app \in inv[i].outstanding :
       \E answer \in DeviceAnswers(app) :
         inv' = Store(i, ProbeAnswered(inv[i], app, answer))

NextTwo ==
  \E i \in Invocations :
    \/ CallOpen(i)
    \/ ProbeReturnOnDevice(i)
    \/ PickerAnswer(i)
    \/ Launch(i)
    \/ LaunchReturn(i)

SpecTwo == InitTwo /\ [][NextTwo]_vars

(***************************************************************************)
(* What the claims speak of.                                               *)
(***************************************************************************)
IsOpen(r) == r.op \in OpenOps

HasObjectOptions(r) == IsOpen(r) /\ r.arg.t = "object"

\* options.app is one of the six AppIds
NamesKnownApp(r) ==
  /\ HasObjectOptions(r) /\ "app" \in DOMAIN r.arg.f
  /\ r.arg.f["app"].t = "string"
  /\ r.arg.f["app"].v \in {"apple-mail", "gmail", "inbox", "spark", "airmail", "outlook"}

\* options.app is a non-empty value outside the AppIds
NamesUnknownApp(r) ==
  /\ HasObjectOptions(r) /\ "app" \in DOMAIN r.arg.f
  /\ Truthy(r.arg.f["app"]) /\ ~NamesKnownApp(r)

\* the resolver runs without an explicit app
NamesNoApp(r) ==
  \/ r.op = "askAppChoice"
  \/ HasObjectOptions(r) /\ ("app" \in DOMAIN r.arg.f => ~Truthy(r.arg.f["app"]))

InvalidOptions(e) ==
  /\ e.name = "EmailException"
  /\ e.message \in {NotAnObjectMessage, BadAppMessage}

NoAppAvailable(e) == e = [name |-> "EmailException", message |-> "No email app found"]

NoCollaboratorCall(r) == r.probes = <<>> /\ r.sheets = <<>> /\ r.urls = <<>>

\* every app of the registry has been probed and has answered
LoopDone(r) == DOMAIN r.answers = AppIds

Installed(r) == {a \in DOMAIN r.answers : r.answers[a] = "true"}

ProbeRejected(r) == {a \in DOMAIN r.answers : r.answers[a] = "reject"}

\* the installed apps in registry-declaration order
InstalledInOrder(r) == SelectSeq(PrefixKeys, LAMBDA a : a \in Installed(r))

\* the app the resolver came to is app
ResolvedTo(r, app) ==
  IF r.op = "askAppChoice" THEN r.settled = "fulfilled" /\ r.value = Str(app)
  ELSE r.pc \in {"resolved", "launching", "done"} /\ r.app = Str(app)

\* the resolver came to no app
ResolvedToNone(r) ==
  /\ r.app = Null
  /\ r.pc = "done"
  /\ IF r.op = "askAppChoice" THEN r.settled = "fulfilled" /\ r.value = Null
     ELSE r.settled = "rejected"

Range(q) == {q[n] : n \in 1..Len(q)}

AllSchemes ==
  <<"message://", "googlegmail://", "inbox-gmail://", "readdle-spark://",
    "airmail://", "ms-outlook://">>

ComposeFields == <<"to", "cc", "bcc", "subject", "body">>

\* the compose URL as the specification words it
ExpectedUrl(app, f) ==
  LET val(k) == IF k \in DOMAIN f THEN f[k].v ELSE ""
      key(k) == IF app = "spark" /\ k = "to" THEN "recipient"
                ELSE IF app = "airmail" /\ k = "body" THEN "htmlBody"
                ELSE k
      emitted == SelectSeq(ComposeFields,
                           LAMBDA k : ~(app = "apple-mail" /\ k = "to") /\ val(k) # "")
      pairs == [n \in 1..Len(emitted) |-> key(emitted[n]) \o "=" \o val(emitted[n])]
      path == IF app = "apple-mail" THEN val("to")
              ELSE IF app \in {"gmail", "inbox"} THEN "co" ELSE "compose"
  IN path \o "?" \o Join(pairs, "&")

(***************************************************************************)
(* The claims.                                                             *)
(***************************************************************************)
\* C1: when options.app is one of the six AppIds, openInbox and openComposer
\* resolve to exactly that app, with no call of canOpenURL and no action sheet,
\* whatever is installed; the only failure left is the launcher's.
C1_ExplicitAppSkipsProbing ==
  \A i \in Invocations :
    LET r == inv[i] IN
      NamesKnownApp(r) =>
        /\ r.probes = <<>> /\ r.sheets = <<>>
        /\ r.pc # "start" =>
             /\ r.pc \in {"resolved", "launching", "done"}
             /\ r.app = r.arg.f["app"]
             /\ r.settled = "rejected" => r.error = OpenUrlError

C1_Witness ==
  \E i \in Invocations :
    /\ NamesKnownApp(inv[i]) /\ inv[i].arg.f["app"] = Str("gmail")
    /\ inv[i].pc = "launching" /\ inv[i].app = Str("gmail") /\ inv[i].probes = <<>>

\* C2: when options.app is a non-empty value that is no AppId, openInbox and
\* openComposer fail with InvalidOptions and call no collaborator.
C2_UnknownAppIsInvalidOptions ==
  \A i \in Invocations :
    LET r == inv[i] IN
      NamesUnknownApp(r) =>
        /\ NoCollaboratorCall(r)
        /\ r.pc # "start" => r.pc = "done" /\ r.settled = "rejected" /\ InvalidOptions(r.error)

C2_Witness ==
  \E i \in Invocations :
    /\ NamesUnknownApp(inv[i]) /\ inv[i].arg.f["app"] = Str("yahoo")
    /\ inv[i].settled = "rejected" /\ inv[i].error.name = "EmailException"

\* C3: for every options value that is no object, openInbox and openComposer
\* fail with InvalidOptions (the EmailException) and call no collaborator.
C3_NonObjectIsInvalidOptions ==
  \A i \in Invocations :
    LET r == inv[i] IN
      IsOpen(r) /\ r.arg.t # "object" =>
        /\ NoCollaboratorCall(r)
        /\ r.pc # "start" => r.pc = "done" /\ r.settled = "rejected" /\ InvalidOptions(r.error)

\* C4: without an explicit app the action sheet is shown if and only if at
\* least two apps probed as installed; with exactly one the resolver comes to
\* that app and with none it comes to no app, in both cases without a sheet.
C4_PickerIffTwoInstalled ==
  \A i \in Invocations :
    LET r == inv[i] IN
      NamesNoApp(r) =>
        /\ r.sheets # <<>> <=> (LoopDone(r) /\ Cardinality(Installed(r)) >= 2)
        /\ Len(r.sheets) <= 1
        /\ LoopDone(r) /\ Cardinality(Installed(r)) = 1 =>
             \A a \in Installed(r) : ResolvedTo(r, a)
        /\ LoopDone(r) /\ Installed(r) = {} => ResolvedToNone(r)

C4_Witness ==
  \E i \in Invocations :
    /\ IsOpen(inv[i]) /\ NamesNoApp(inv[i]) /\ LoopDone(inv[i])
    /\ Installed(inv[i]) = {"spark"}
    /\ inv[i].pc = "resolved" /\ inv[i].app = Str("spark") /\ inv[i].sheets = <<>>

\* C5: the action sheet is given the titles of exactly the installed apps in
\* registry order, then the cancel label, with cancelButtonIndex the last index;
\* a smaller index i resolves to the i-th installed app in registry order, and
\* the cancel index resolves askAppChoice to null without raising.
C5_PickerListAndSelection ==
  \A i \in Invocations :
    LET r == inv[i] IN
      r.sheets # <<>> =>
        LET req == r.sheets[1]
            apps == InstalledInOrder(r)
            n == Len(apps)
        IN /\ Len(req.options) = n + 1
           /\ \A k \in 1..n : req.options[k] = Str(titles[apps[k]])
           /\ req.options[n + 1] = Default(r.ui.cancelLabel, Str("Cancel"))
           /\ req.cancelButtonIndex = n
           /\ r.picked >= 0 /\ r.picked < n => ResolvedTo(r, apps[r.picked + 1])
           /\ r.picked = n =>
                /\ r.app = Null
                /\ r.op = "askAppChoice" => r.settled = "fulfilled" /\ r.value = Null

C5_Witness ==
  \E i \in Invocations :
    /\ Installed(inv[i]) = {"gmail", "outlook"}
    /\ inv[i].sheets # <<>>
    /\ SubSeq(inv[i].sheets[1].options, 1, 2) = <<Str("Gmail"), Str("Outlook")>>
    /\ inv[i].picked = 1 /\ inv[i].app = Str("outlook")

\* C6: when no app is resolvable, the probes finding none installed or the user
\* choosing the cancel entry, openInbox and openComposer fail with NoAppAvailable
\* and never call the launcher.
C6_NoAppAvailable ==
  \A i \in Invocations :
    LET r == inv[i] IN
      /\ IsOpen(r) /\ NamesNoApp(r)
      /\ \/ LoopDone(r) /\ Installed(r) = {}
         \/ r.sheets # <<>> /\ r.picked = r.sheets[1].cancelButtonIndex
      => /\ r.pc = "done" /\ r.settled = "rejected" /\ NoAppAvailable(r.error)
         /\ r.urls = <<>>

C6_Witness ==
  \E i \in Invocations :
    /\ IsOpen(inv[i]) /\ inv[i].sheets # <<>>
    /\ inv[i].picked = inv[i].sheets[1].cancelButtonIndex
    /\ inv[i].settled = "rejected" /\ inv[i].urls = <<>>

\* C7: for every string that is no AppId, isAppInstalled returns false and
\* never calls canOpenURL.
C7_UnknownAppNeverProbed ==
  \A i \in Invocations :
    LET r == inv[i] IN
      r.op = "isAppInstalled" /\ r.arg.v \notin AppIds =>
        /\ r.probes = <<>>
        /\ r.pc # "start" => r.pc = "done" /\ r.settled = "fulfilled" /\ r.value = Bool(FALSE)

\* C8: a rejected canOpenURL makes isAppInstalled of a known app resolve to
\* false; in the resolver the app counts as not installed, the loop still probes
\* every app, and the caller never gets the probe failure.
C8_ProbeFailureAbsorbed ==
  \A i \in Invocations :
    LET r == inv[i] IN
      ProbeRejected(r) # {} =>
        /\ r.op = "isAppInstalled" /\ r.arg.v \in AppIds =>
             r.pc = "done" /\ r.settled = "fulfilled" /\ r.value = Bool(FALSE)
        /\ r.op # "isAppInstalled" =>
             /\ ProbeRejected(r) \cap Range(r.availableApps) = {}
             /\ Range(r.availableApps) = Installed(r)
             /\ IF r.pc = "probing" THEN r.outstanding # {}
                ELSE LoopDone(r) /\ r.probes = AllSchemes
             /\ r.settled = "rejected" => NoAppAvailable(r.error) \/ r.error = OpenUrlError

C8_Witness ==
  \E i \in Invocations :
    /\ IsOpen(inv[i]) /\ LoopDone(inv[i])
    /\ ProbeRejected(inv[i]) = {"gmail"} /\ Installed(inv[i]) = {"outlook"}
    /\ inv[i].pc = "resolved" /\ inv[i].app = Str("outlook")

\* C9: for every app of the registry and every bundle of present, absent or
\* empty to, cc, bcc, subject, body, getUrlParams returns path ? pairs: the
\* dialect path (options.to or "" for apple-mail), and key=value for each of the
\* five fields the dialect defines and whose value is non-empty, in the order to,
\* cc, bcc, subject, body, joined by &.
C9_ComposeUrl ==
  \A i \in Invocations :
    LET r == inv[i] IN
      /\ r.op = "getUrlParams" /\ r.pc = "done"
      /\ r.app.v \in AppIds /\ DOMAIN r.arg.f \subseteq Range(ComposeFields)
      => r.value = Str(ExpectedUrl(r.app.v, r.arg.f))

C9_Witness ==
  \E i \in Invocations :
    /\ inv[i].op = "getUrlParams" /\ inv[i].pc = "done" /\ inv[i].app = Str("gmail")
    /\ inv[i].arg.f = ("to" :> Str("a@b.com")) @@ ("subject" :> Str("Hi"))
    /\ inv[i].value = Str("co?to=a@b.com&subject=Hi")

\* C10: openComposer launches apple-mail with the prefix mailto:, the recipient
\* as the path and no to= pair; every other app is launched with its registry
\* scheme followed by the compose URL.
C10_ComposerLaunchUrl ==
  \A i \in Invocations :
    LET r == inv[i] IN
      r.op = "openComposer" /\ r.urls # <<>> =>
        /\ Len(r.urls) = 1
        /\ r.app.t = "string" /\ r.app.v \in AppIds
        /\ IF r.app.v = "apple-mail"
           THEN r.urls[1] = "mailto:" \o ExpectedUrl("apple-mail", r.arg.f)
           ELSE r.urls[1] = AllSchemes[IndexOf(PrefixKeys, r.app) + 1]
                              \o getUrlParams(r.app.v, r.arg)

C10_Witness ==
  \E i \in Invocations :
    /\ inv[i].op = "openComposer" /\ inv[i].app = Str("apple-mail")
    /\ DOMAIN inv[i].arg.f = {"app", "to", "subject"}
    /\ inv[i].urls = <<"mailto:a@b.com?subject=Hi">>

\* C11: once an app is resolved, openInbox calls the launcher with exactly that
\* app's registry scheme and nothing appended, whatever compose fields the
\* options carry.
C11_InboxLaunchesScheme ==
  \A i \in Invocations :
    LET r == inv[i] IN
      /\ r.op = "openInbox" /\ r.pc \in {"launching", "done"} /\ r.app # Null
      => /\ r.app.t = "string" /\ r.app.v \in AppIds
         /\ r.urls = <<AllSchemes[IndexOf(PrefixKeys, r.app) + 1]>>

C11_Witness ==
  \E i \in Invocations :
    /\ inv[i].op = "openInbox" /\ inv[i].app = Str("apple-mail")
    /\ {"to", "subject"} \subseteq DOMAIN inv[i].arg.f
    /\ inv[i].urls = <<"message://">>

\* C12: a failure of the launcher is not recovered: the operation ends rejected
\* with that failure, the launcher has been called exactly once, and nothing,
\* no probe, sheet or second launch, follows.
C12_LaunchFailurePropagates ==
  [][\A i \in Invocations :
       /\ inv'[i].launchAnswer = "fail" =>
            /\ inv'[i].pc = "done" /\ inv'[i].settled = "rejected"
            /\ inv'[i].error = [name |-> "Error", message |-> "Unable to open URL"]
            /\ Len(inv'[i].urls) = 1
       /\ inv[i].launchAnswer = "fail" => inv'[i] = inv[i]]_vars

C12_Witness ==
  \E i \in Invocations :
    /\ IsOpen(inv[i]) /\ inv[i].launchAnswer = "fail"
    /\ inv[i].probes = AllSchemes /\ inv[i].sheets # <<>>
    /\ inv[i].settled = "rejected" /\ Len(inv[i].urls) = 1

\* C13: without an explicit app the resolver probes every AppId exactly once, in
\* registry order, one probe at a time, each answered before the next is issued,
\* with no short cut once one or two installed apps are found; the sheet is shown
\* only after the last probe has answered.
C13_SequentialProbing ==
  \A i \in Invocations :
    LET r == inv[i] IN
      NamesNoApp(r) /\ r.pc # "start" =>
        /\ r.probes = SubSeq(AllSchemes, 1, Len(r.probes))
        /\ Cardinality(r.outstanding) <= 1
        /\ Cardinality(DOMAIN r.answers) + Cardinality(r.outstanding) = Len(r.probes)
        /\ DOMAIN r.answers = {PrefixKeys[n] : n \in 1..Cardinality(DOMAIN r.answers)}
        /\ IF r.pc = "probing" THEN Cardinality(r.outstanding) = 1
           ELSE r.outstanding = {} /\ r.probes = AllSchemes /\ LoopDone(r)
        /\ r.sheets # <<>> => LoopDone(r) /\ r.outstanding = {}

C13_Witness ==
  \E i \in Invocations :
    /\ NamesNoApp(inv[i]) /\ inv[i].pc = "probing"
    /\ Installed(inv[i]) = {"apple-mail", "gmail"}
    /\ inv[i].outstanding = {"spark"}
    /\ inv[i].probes = SubSeq(AllSchemes, 1, 4)

\* the bundle cut down to its five compose fields
OnlyComposeFields(options) ==
  [options EXCEPT !.f = [k \in DOMAIN options.f \cap Range(ComposeFields) |-> options.f[k]]]

\* C14: the query pairs come from to, cc, bcc, subject, body alone: whatever
\* other keys the bundle carries (path, title, message), getUrlParams returns
\* what it returns for the five fields, and the dialect's path entry yields no
\* pair.
C14_NoPairForOtherKeys ==
  \A i \in Invocations :
    LET r == inv[i] IN
      r.op = "getUrlParams" /\ r.pc = "done" /\ r.app.v \in AppIds =>
        r.value = Str(getUrlParams(r.app.v, OnlyComposeFields(r.arg)))

\* C15: options.app equal to "" is treated like an absent or null app: it never
\* fails with InvalidOptions, and under the same probe, sheet and launcher
\* answers the call goes through the same probes and sheet to the same app,
\* launched URL and outcome.
C15_EmptyAppLikeAbsent ==
  /\ inv[1].arg.f["app"] = Str("")
  /\ "app" \in DOMAIN inv[2].arg.f => inv[2].arg.f["app"] = Null
  /\ ~InvalidOptions(inv[1].error)
  /\ [inv[1] EXCEPT !.arg = inv[2].arg] = inv[2]

C15_Witness ==
  /\ inv[1].arg.f["app"] = Str("") /\ "app" \notin DOMAIN inv[2].arg.f
  /\ inv[1].op = "openComposer"
  /\ Installed(inv[1]) = {"gmail", "outlook"} /\ inv[1].picked = 1
  /\ inv[1].urls = <<"ms-outlook://compose?to=a@b.com&subject=Hi">>
  /\ inv[2].urls = inv[1].urls /\ inv[2].settled = "fulfilled"

\* what the caller supplied for the prompt's key k, Undefined for nothing
Supplied(r, k) ==
  IF r.op = "askAppChoice" THEN r.ui[k]
  ELSE IF k \in DOMAIN r.arg.f THEN r.arg.f[k] ELSE Undefined

\* C16: the sheet's request carries neither title nor message when removeText is
\* true, and both otherwise: the caller's value, or "Open mail app" and "Which
\* app would you like to open?" for one not supplied; the cancel label is the
\* caller's cancelLabel or "Cancel", whatever removeText is.
C16_PromptText ==
  \A i \in Invocations :
    LET r == inv[i] IN
      r.sheets # <<>> =>
        LET req == r.sheets[1] IN
          /\ IF Supplied(r, "removeText") = Bool(TRUE)
             THEN req.title = Absent /\ req.message = Absent
             ELSE /\ req.title = IF Supplied(r, "title") = Undefined
                                 THEN Str("Open mail app") ELSE Supplied(r, "title")
                  /\ req.message = IF Supplied(r, "message") = Undefined
                                   THEN Str("Which app would you like to open?")
                                   ELSE Supplied(r, "message")
          /\ req.options[Len(req.options)] =
               IF Supplied(r, "cancelLabel") = Undefined THEN Str("Cancel")
               ELSE Supplied(r, "cancelLabel")

C16_Witness ==
  \E i \in Invocations :
    /\ IsOpen(inv[i]) /\ inv[i].sheets # <<>>
    /\ Supplied(inv[i], "removeText") = Bool(TRUE) /\ Supplied(inv[i], "title") = Str("Pick")
    /\ inv[i].sheets[1].title = Absent /\ inv[i].sheets[1].message = Absent
    /\ inv[i].sheets[1].options[Len(inv[i].sheets[1].options)] = Str("Nope")

\* C17: openInbox and openComposer call the launcher at most once and only after
\* resolution has produced an app, every probe of the invocation answered and
\* its sheet, if one was shown, answered too; once the launcher is called no
\* probe and no sheet follows; the sheet is shown at most once.
C17_LaunchAfterResolution ==
  [][\A i \in Invocations :
       IsOpen(inv[i]) =>
         /\ Len(inv'[i].urls) <= 1 /\ Len(inv'[i].sheets) <= 1
         /\ inv'[i].urls # <<>> =>
              /\ inv'[i].app.t = "string" /\ inv'[i].app.v \in AppIds
              /\ inv'[i].outstanding = {}
              /\ Cardinality(DOMAIN inv'[i].answers) = Len(inv'[i].probes)
              /\ inv'[i].sheets # <<>> => inv'[i].picked >= 0
         /\ inv[i].urls # <<>> =>
              inv'[i].probes = inv[i].probes /\ inv'[i].sheets = inv[i].sheets]_vars

C17_Witness ==
  \E i \in Invocations :
    /\ IsOpen(inv[i]) /\ inv[i].pc = "done" /\ Len(inv[i].urls) = 1
    /\ inv[i].probes = AllSchemes /\ Len(inv[i].sheets) = 1 /\ inv[i].picked >= 0

RECURSIVE AloneProbes(_, _, _)
\* the call run alone through the probes from the n-th on that r saw answered
AloneProbes(s, r, n) ==
  IF n > Len(PrefixKeys) \/ PrefixKeys[n] \notin DOMAIN r.answers THEN s
  ELSE AloneProbes(ProbeAnswered(s, PrefixKeys[n], r.answers[PrefixKeys[n]]), r, n + 1)

\* where the call of r stands when it runs alone and is given the answers r has
\* had so far: its probes' answers, the button picked, the launcher's answer
Alone(r) ==
  LET called == GetApp(Fresh(r.op, r.arg, NoUi))
      probed == AloneProbes(called, r, 1)
      picked == IF r.picked >= 0 THEN PickerAnswered(probed, r.picked) ELSE probed
      launched == IF r.urls # <<>> THEN Launched(picked) ELSE picked
  IN IF r.launchAnswer # "" THEN LaunchAnswered(launched, r.launchAnswer = "ok")
     ELSE launched

\* C18: two calls of openInbox / openComposer whose steps interleave do not
\* interfere: each keeps its own list of available apps and stands, at every
\* point, where it stands when run alone with the same probe, sheet and launcher
\* answers: same resolved app, same launched URL, same outcome.
C18_NoInterference ==
  \A i \in Invocations :
    inv[i].pc # "start" =>
      /\ inv[i] = Alone(inv[i])
      /\ Range(inv[i].availableApps) = Installed(inv[i])

C18_Witness ==
  /\ inv[1].pc = "done" /\ inv[1].settled = "fulfilled"
  /\ inv[1].availableApps = <<"gmail">>
  /\ inv[1].urls = <<"googlegmail://co?to=a@b.com&subject=Hi">>
  /\ inv[2].pc = "picking" /\ inv[2].availableApps = <<"spark", "outlook">>
  /\ inv[2].urls = <<>>

\* the call waits for an answer of a collaborator
Waiting(r) ==
  \/ r.pc = "probing" /\ r.outstanding # {}
  \/ r.pc = "picking" /\ r.picked = -1
  \/ r.pc = "launching" /\ r.launchAnswer = ""

\* a collaborator has answered between r and s
Answered(r, s) ==
  \/ DOMAIN s.answers # DOMAIN r.answers
  \/ s.picked # r.picked
  \/ s.launchAnswer # r.launchAnswer

\* C19: when every collaborator call answers in the end, every call of openInbox
\* and openComposer ends, fulfilled or rejected; and there is no timeout: a
\* pending call past its start waits for a probe, the sheet or the launcher (or
\* is about to call the launcher), and leaves that wait only by the answer.
C19_CompletesWhenAnswered ==
  /\ \A i \in Invocations :
       IsOpen(inv[i]) ~> (inv[i].pc = "done" /\ inv[i].settled \in {"fulfilled", "rejected"})
  /\ [][\A i \in Invocations :
          IsOpen(inv[i]) =>
            /\ inv'[i].settled = "pending" /\ inv'[i].pc \notin {"start", "resolved"}
                 => Waiting(inv'[i])
            /\ Waiting(inv[i]) /\ inv'[i] # inv[i] => Answered(inv[i], inv'[i])]_vars

C19_Witness ==
  \E i \in Invocations :
    /\ IsOpen(inv[i]) /\ inv[i].settled = "fulfilled"
    /\ LoopDone(inv[i]) /\ ProbeRejected(inv[i]) # {}
    /\ inv[i].picked >= 0 /\ inv[i].launchAnswer = "ok"

====
